---- MODULE Spec2Model ----
(***************************************************************************)
(* Booking / conflict-resolution engine of the gym-management application. *)
(*                                                                         *)
(* The persistent store is modelled table by table.  Every service         *)
(* function (app/member_service.py, app/trainer_service.py,                *)
(* app/admin_service.py) is one atomic action: the function runs inside    *)
(* one unit of work and either commits or raises before anything is        *)
(* written.                                                                *)
(*                                                                         *)
(* Time.  A datetime is an integer number of ticks since midnight of day   *)
(* 0, which is a Monday; there are TicksPerHour ticks in an hour and       *)
(* HoursPerDay hours in a modelled day, so that datetime.time() is the     *)
(* remainder modulo TicksPerDay and datetime.weekday() is the day number   *)
(* modulo 7.  A datetime.time value is a tick of the day.                  *)
(***************************************************************************)
EXTENDS Integers, Sequences, FiniteSets, Bags, TLC

\* ------------------------------------------------------------------ bounds
NumMembers == 2
NumTrainers == 2
NumRooms == 2
TicksPerHour == 2
HoursPerDay == 4
NumDays == 1
MaxStart == 3
MaxBookings == 2
MaxAvail == 2
MaxRows == 2
MaxCapacity == 1
ProbeDays == 2
NumRequests == 2
MaxClasses == 1

\* ------------------------------------------------------- program constants
DaysPerWeek == 7
ClassHours == 1

TicksPerDay == HoursPerDay * TicksPerHour

\* rows of the member, trainer and room tables (primary keys start at 1)
Members == 1..NumMembers
Trainers == 1..NumTrainers
Rooms == 1..NumRooms

\* Python's None for an optional datetime argument; None and 0 are both
\* falsy for an optional id
None == -1

\* ------------------------------------------------------------ inputs
\* ids: every row, and one id that names no row
MemberIds == 1..(NumMembers + 1)
TrainerIds == 1..(NumTrainers + 1)
RoomIds == 1..(NumRooms + 1)
\* member, trainer, room: all existing, or exactly one of them missing
PartyIds ==
    (Members \X Trainers \X Rooms)
        \cup {<<NumMembers + 1, 1, 1>>, <<1, NumTrainers + 1, 1>>, <<1, 1, NumRooms + 1>>}
\* requested start times: the first ticks of every modelled day
DateTimes == {d * TicksPerDay + t : d \in 0..(NumDays - 1), t \in 0..MaxStart}
\* requested windows: one hour from every start time, and an empty window
Windows == {<<s, s + TicksPerHour>> : s \in DateTimes} \cup {<<0, 0>>}
\* (new_start, new_end) of a reschedule: both given, or both None
NewWindows == Windows \cup {<<None, None>>}
\* (start_time, end_time) of a class request: one hour from every start time,
\* a two-hour window and an empty one
ClassWindows ==
    {<<s, s + TicksPerHour>> : s \in DateTimes}
        \cup {<<0, 2 * TicksPerHour>>, <<1, 1>>}
SessionIds == 1..(MaxBookings + 1)
AvailabilityIds == 1..(MaxAvail + 1)
Capacities == 0..MaxCapacity
\* class_id = 0 (None): create; an existing id: update; an id of no class
ClassIds == 0..(MaxBookings + 1)
\* trainer, room, capacity, price of a class: all valid, or exactly one of
\* trainer, room and price invalid
ClassArgs ==
    (Trainers \X Rooms \X Capacities \X {1})
        \cup {<<NumTrainers + 1, 1, 1, 1>>, <<1, NumRooms + 1, 1, 1>>, <<1, 1, 1, 0>>}
\* (start, end) of an availability window as datetime.time values: every
\* pair of whole hours, and pairs with one bound off the hour
HoursOfDay == {h * TicksPerHour : h \in 0..(HoursPerDay - 1)}
TimeWindows ==
    (HoursOfDay \X HoursOfDay) \cup {<<1, TicksPerHour>>, <<0, TicksPerHour + 1>>}
DaysOfWeek == 0..(NumDays - 1) \cup {DaysPerWeek}

\* ------------------------------------------------------------ datetime
weekday(dt) == (dt \div TicksPerDay) % DaysPerWeek

time(dt) == dt % TicksPerDay

\* time.minute != 0 or time.second != 0
off_the_hour(t) == t % TicksPerHour # 0

\* a start time kept as the caller gave it
keep_minute(dt) == dt

\* datetime.replace(minute=0, second=0, microsecond=0)
replace_minute0(dt) == dt - (dt % TicksPerHour)

\* ------------------------------------------------------------ messages
OK == "ok"
IntegrityError == "IntegrityError"
ErrStartBeforeEnd == "start_time must be before end_time"
ErrMemberNotFound == "Member not found"
ErrTrainerNotFound == "Trainer not found"
ErrRoomNotFound == "Room not found"
ErrSessionNotFound == "Private session not found"
ErrClassNotFound == "Class not found"
ErrNoAvailability == "Trainer has no availability on this day."
ErrOutsideHours == "Requested time is outside the trainer's available hours."
ErrRoomSession == "Room is already booked for another private session in that time"
ErrRoomClass == "Room is already booked for a class in that time"
ErrTrainerSession == "Trainer is already booked for another private session in that time"
ErrTrainerSessionResched == "Trainer is already booked for another session in that time"
ErrTrainerClass == "Trainer is already teaching a class in that time"
ErrMemberSession == "Member already has a private session in that time"
ErrMemberClass == "Member is registered for a class in that time"
ErrAlreadyRegistered == "Member already registered for this class"
ErrClassFull == "Class is full"
ErrAvailOrder == "Availability start time must be before end time"
ErrAvailOnHour == "Availability times must start/end on the hour (e.g., 09:00)"
ErrAvailOverlap == "Availability window overlaps with an existing one"
ErrAvailUpdateOverlap == "Updated window overlaps with an existing one"
ErrAvailNotFound == "Availability window not found"
ErrPrice == "Class price must be positive"
ErrNotOwner == "Trainer is not allowed to modify this class"
ErrClassAvailability == "Trainer does not have availability for this time window"
ErrClassRoom == "Room is not available for this time slot"
ErrClassTrainer == "Trainer is not available for this time slot"

\* ------------------------------------------------------------ state
VARIABLES trainer_availability, private_session, class_schedule,
          class_registration, billing_item, last, txn

\* trainer_availability, private_session and class_schedule are sequences:
\* the index of a row is its autoincrement primary key.
\* class_registration and billing_item are bags of rows (their primary keys
\* are never read by the engine).
\* last is the service call that produced the state: the function called,
\* whether it returned (ok) or raised, and whether it was a successful
\* reschedule to the session's own room, start and end (own).
\* txn is the state of the requests that run concurrently, each as its own
\* unit of work: idle, or past its queries (checked) with the arguments it
\* was called with and what the queries decided, its rows not yet written.
db == <<trainer_availability, private_session, class_schedule,
        class_registration, billing_item>>

vars == <<trainer_availability, private_session, class_schedule,
          class_registration, billing_item, last, txn>>

\* the concurrent requests, and a request that is not running
Txns == 1..NumRequests

Idle == [pc |-> "idle", args |-> <<>>, res |-> OK]

Ids(table) == 1..Len(table)

Call(op, res, own) == [op |-> op, ok |-> res = OK, own |-> res = OK /\ own]

Init ==
    /\ trainer_availability = <<>>
    /\ private_session = <<>>
    /\ class_schedule = <<>>
    /\ class_registration = EmptyBag
    /\ billing_item = EmptyBag
    /\ last = [op |-> "init", ok |-> TRUE, own |-> FALSE]
    /\ txn = [p \in Txns |-> Idle]

\* ------------------------------------------------- trainer availability
\* the or_( and_(..), and_(..), and_(..) ) overlap filter of the
\* availability queries
\* the overlap filter without its third and_(..): a new window that strictly
\* contains an existing one is not seen
availability_overlap_no_containment(av, start, end) ==
    \/ (av.start_time <= start /\ av.end_time > start)
    \/ (av.start_time < end /\ av.end_time >= end)

\* the overlap filter with every comparison non-strict: windows that only
\* share an endpoint count as overlapping
availability_overlap_closed(av, start, end) ==
    \/ (av.start_time <= start /\ av.end_time >= start)
    \/ (av.start_time <= end /\ av.end_time >= end)
    \/ (av.start_time >= start /\ av.end_time <= end)

availability_overlap(av, start, end) ==
    \/ (av.start_time <= start /\ av.end_time > start)
    \/ (av.start_time < end /\ av.end_time >= end)
    \/ (av.start_time >= start /\ av.end_time <= end)

\* the overlap query without its trainer_id filter
set_trainer_availability_result_any_trainer(trainer_id, day_of_week, start, end) ==
    IF start >= end THEN ErrAvailOrder
    ELSE IF off_the_hour(start) \/ off_the_hour(end) THEN ErrAvailOnHour
    ELSE IF trainer_id \notin Trainers THEN ErrTrainerNotFound
    ELSE IF \E i \in Ids(trainer_availability) :
               /\ trainer_availability[i].day_of_week = day_of_week
               /\ availability_overlap(trainer_availability[i], start, end)
         THEN ErrAvailOverlap
    ELSE OK

set_trainer_availability_result(trainer_id, day_of_week, start, end) ==
    IF start >= end THEN ErrAvailOrder
    ELSE IF off_the_hour(start) \/ off_the_hour(end) THEN ErrAvailOnHour
    ELSE IF trainer_id \notin Trainers THEN ErrTrainerNotFound
    ELSE IF \E i \in Ids(trainer_availability) :
               /\ trainer_availability[i].trainer_id = trainer_id
               /\ trainer_availability[i].day_of_week = day_of_week
               /\ availability_overlap(trainer_availability[i], start, end)
         THEN ErrAvailOverlap
    ELSE OK

set_trainer_availability(trainer_id, day_of_week, start, end) ==
    LET res == set_trainer_availability_result(trainer_id, day_of_week, start, end) IN
    /\ last' = Call("set_trainer_availability", res, FALSE)
    /\ IF res = OK
       THEN trainer_availability' = Append(trainer_availability,
                [trainer_id |-> trainer_id, day_of_week |-> day_of_week,
                 start_time |-> start, end_time |-> end])
       ELSE UNCHANGED trainer_availability
    /\ UNCHANGED <<private_session, class_schedule, class_registration, billing_item>>

update_trainer_availability_result(availability_id, start, end) ==
    IF start >= end THEN ErrAvailOrder
    ELSE IF off_the_hour(start) \/ off_the_hour(end) THEN ErrAvailOnHour
    ELSE IF availability_id \notin Ids(trainer_availability) THEN ErrAvailNotFound
    ELSE LET availability == trainer_availability[availability_id] IN
         IF \E i \in Ids(trainer_availability) :
               /\ trainer_availability[i].trainer_id = availability.trainer_id
               /\ trainer_availability[i].day_of_week = availability.day_of_week
               /\ i # availability_id
               /\ availability_overlap(trainer_availability[i], start, end)
         THEN ErrAvailUpdateOverlap
         ELSE OK

update_trainer_availability(availability_id, start, end) ==
    LET res == update_trainer_availability_result(availability_id, start, end) IN
    /\ last' = Call("update_trainer_availability", res, FALSE)
    /\ IF res = OK
       THEN trainer_availability' =
                [trainer_availability EXCEPT ![availability_id].start_time = start,
                                             ![availability_id].end_time = end]
       ELSE UNCHANGED trainer_availability
    /\ UNCHANGED <<private_session, class_schedule, class_registration, billing_item>>

\* _trainer_supports_window (trainer_service)
_trainer_supports_window(trainer_id, start_time, end_time) ==
    \E i \in Ids(trainer_availability) :
        /\ trainer_availability[i].trainer_id = trainer_id
        /\ trainer_availability[i].day_of_week = weekday(start_time)
        /\ trainer_availability[i].start_time <= time(start_time)
        /\ trainer_availability[i].end_time >= time(end_time)

\* within_window that compares only the start of the request with the window
_ensure_trainer_availability_start_only(trainer_id, start_time, end_time) ==
    LET availabilities == {i \in Ids(trainer_availability) :
            /\ trainer_availability[i].trainer_id = trainer_id
            /\ trainer_availability[i].day_of_week = weekday(start_time)} IN
    IF availabilities = {} THEN ErrNoAvailability
    ELSE IF ~ \E i \in availabilities :
                /\ time(start_time) >= trainer_availability[i].start_time
                /\ time(start_time) <= trainer_availability[i].end_time
         THEN ErrOutsideHours
    ELSE OK

\* within_window with strict comparisons: a request that starts or ends on a
\* bound of the window is refused
_ensure_trainer_availability_strict(trainer_id, start_time, end_time) ==
    LET availabilities == {i \in Ids(trainer_availability) :
            /\ trainer_availability[i].trainer_id = trainer_id
            /\ trainer_availability[i].day_of_week = weekday(start_time)} IN
    IF availabilities = {} THEN ErrNoAvailability
    ELSE IF ~ \E i \in availabilities :
                /\ time(start_time) > trainer_availability[i].start_time
                /\ time(end_time) < trainer_availability[i].end_time
         THEN ErrOutsideHours
    ELSE OK

\* _ensure_trainer_availability (member_service): OK or the message raised
_ensure_trainer_availability(trainer_id, start_time, end_time) ==
    LET availabilities == {i \in Ids(trainer_availability) :
            /\ trainer_availability[i].trainer_id = trainer_id
            /\ trainer_availability[i].day_of_week = weekday(start_time)} IN
    IF availabilities = {} THEN ErrNoAvailability
    ELSE IF ~ \E i \in availabilities :
                /\ time(start_time) >= trainer_availability[i].start_time
                /\ time(end_time) <= trainer_availability[i].end_time
         THEN ErrOutsideHours
    ELSE OK

\* ------------------------------------------------------ conflict queries
\* and_(X.start_time < end_time, X.end_time > start_time): overlap_ps and
\* overlap_cls of book/reschedule, _overlap_filter of create_or_update_class
\* the overlap filter with closed intervals: windows that only touch conflict
overlap_closed(row, start_time, end_time) ==
    row.start_time <= end_time /\ row.end_time >= start_time

overlap(row, start_time, end_time) ==
    row.start_time < end_time /\ row.end_time > start_time

\* _time_overlaps (member_service)
_time_overlaps(start, end, other_start, other_end) ==
    ~ (end <= other_start \/ start >= other_end)

room_session_stmt(room_id, start_time, end_time) ==
    {i \in Ids(private_session) :
        private_session[i].room_id = room_id
        /\ overlap(private_session[i], start_time, end_time)}

\* the room query filtered on the wrong column of class_schedule
room_class_stmt_trainer_column(room_id, start_time, end_time) ==
    {c \in Ids(class_schedule) :
        class_schedule[c].trainer_id = room_id
        /\ overlap(class_schedule[c], start_time, end_time)}

room_class_stmt(room_id, start_time, end_time) ==
    {c \in Ids(class_schedule) :
        class_schedule[c].room_id = room_id
        /\ overlap(class_schedule[c], start_time, end_time)}

\* the trainer query that sees only sessions starting inside the request
trainer_session_stmt_start_inside(trainer_id, start_time, end_time) ==
    {i \in Ids(private_session) :
        private_session[i].trainer_id = trainer_id
        /\ private_session[i].start_time >= start_time
        /\ private_session[i].start_time < end_time}

trainer_session_stmt(trainer_id, start_time, end_time) ==
    {i \in Ids(private_session) :
        private_session[i].trainer_id = trainer_id
        /\ overlap(private_session[i], start_time, end_time)}

trainer_class_stmt(trainer_id, start_time, end_time) ==
    {c \in Ids(class_schedule) :
        class_schedule[c].trainer_id = trainer_id
        /\ overlap(class_schedule[c], start_time, end_time)}

member_session_stmt(member_id, start_time, end_time) ==
    {i \in Ids(private_session) :
        private_session[i].member_id = member_id
        /\ overlap(private_session[i], start_time, end_time)}

\* select(ClassSchedule).join(ClassRegistration, ...)
member_class_stmt(member_id, start_time, end_time) ==
    {c \in Ids(class_schedule) :
        /\ CopiesIn([member_id |-> member_id, class_id |-> c], class_registration) > 0
        /\ overlap(class_schedule[c], start_time, end_time)}

\* ------------------------------------------------------------- billing
PrivateBill(private_session_id, row, description) ==
    [member_id |-> row.member_id, class_id |-> 0,
     private_session_id |-> private_session_id, trainer_id |-> row.trainer_id,
     amount |-> 0, description |-> description, status |-> "pending"]

\* _ensure_private_billing without the lookup: a bill is added on every call
_ensure_private_billing_always_adds(bills, private_session_id, row) ==
    bills (+) SetToBag({PrivateBill(private_session_id, row, row.start_time)})

\* _ensure_private_billing: the bill of the session is rewritten in place
\* when there is one, a pending bill is added otherwise.  The description
\* carries the start time of the session; the price of a private session is
\* not modelled, so the amount stays 0.
_ensure_private_billing(bills, private_session_id, row) ==
    LET found == {b \in BagToSet(bills) : b.private_session_id = private_session_id} IN
    IF found # {}
    THEN LET bill == CHOOSE b \in found : TRUE IN
         (bills (-) SetToBag({bill}))
            (+) SetToBag({[bill EXCEPT !.description = row.start_time,
                                       !.trainer_id = row.trainer_id]})
    ELSE bills (+) SetToBag({PrivateBill(private_session_id, row, row.start_time)})

\* _ensure_class_billing: a non-cancelled bill of (member, class) is reused
\* (its trainer refreshed), a pending bill is added otherwise; the description
\* names the trainer of the class
_ensure_class_billing(bills, member_id, class_id) ==
    LET cls == class_schedule[class_id]
        found == {b \in BagToSet(bills) :
                    /\ b.member_id = member_id
                    /\ b.class_id = class_id
                    /\ b.status # "cancelled"} IN
    IF found # {}
    THEN LET existing == CHOOSE b \in found : TRUE IN
         (bills (-) SetToBag({existing}))
            (+) SetToBag({[existing EXCEPT !.trainer_id = cls.trainer_id]})
    ELSE bills (+) SetToBag({[member_id |-> member_id, class_id |-> class_id,
                              private_session_id |-> 0, trainer_id |-> cls.trainer_id,
                              amount |-> cls.price, description |-> cls.trainer_id,
                              status |-> "pending"]})

\* ------------------------------------------------ book_private_session
\* book_private_session with the trainer's sessions checked ahead of the
\* room's classes
book_private_session_result_trainer_first(member_id, trainer_id, room_id, start_time, end_time) ==
    IF start_time >= end_time THEN ErrStartBeforeEnd
    ELSE IF member_id \notin Members THEN ErrMemberNotFound
    ELSE IF trainer_id \notin Trainers THEN ErrTrainerNotFound
    ELSE IF room_id \notin Rooms THEN ErrRoomNotFound
    ELSE IF _ensure_trainer_availability(trainer_id, start_time, end_time) # OK
         THEN _ensure_trainer_availability(trainer_id, start_time, end_time)
    ELSE IF room_session_stmt(room_id, start_time, end_time) # {} THEN ErrRoomSession
    ELSE IF trainer_session_stmt(trainer_id, start_time, end_time) # {} THEN ErrTrainerSession
    ELSE IF room_class_stmt(room_id, start_time, end_time) # {} THEN ErrRoomClass
    ELSE IF trainer_class_stmt(trainer_id, start_time, end_time) # {} THEN ErrTrainerClass
    ELSE IF member_session_stmt(member_id, start_time, end_time) # {} THEN ErrMemberSession
    ELSE IF member_class_stmt(member_id, start_time, end_time) # {} THEN ErrMemberClass
    ELSE OK

book_private_session_result(member_id, trainer_id, room_id, start_time, end_time) ==
    IF start_time >= end_time THEN ErrStartBeforeEnd
    ELSE IF member_id \notin Members THEN ErrMemberNotFound
    ELSE IF trainer_id \notin Trainers THEN ErrTrainerNotFound
    ELSE IF room_id \notin Rooms THEN ErrRoomNotFound
    ELSE IF _ensure_trainer_availability(trainer_id, start_time, end_time) # OK
         THEN _ensure_trainer_availability(trainer_id, start_time, end_time)
    ELSE IF room_session_stmt(room_id, start_time, end_time) # {} THEN ErrRoomSession
    ELSE IF room_class_stmt(room_id, start_time, end_time) # {} THEN ErrRoomClass
    ELSE IF trainer_session_stmt(trainer_id, start_time, end_time) # {} THEN ErrTrainerSession
    ELSE IF trainer_class_stmt(trainer_id, start_time, end_time) # {} THEN ErrTrainerClass
    ELSE IF member_session_stmt(member_id, start_time, end_time) # {} THEN ErrMemberSession
    ELSE IF member_class_stmt(member_id, start_time, end_time) # {} THEN ErrMemberClass
    ELSE OK

\* book_private_session that adds and commits the row before the trainer's
\* availability is checked
book_private_session_write_first(member_id, trainer_id, room_id, start_time, end_time) ==
    LET res == book_private_session_result(member_id, trainer_id, room_id,
                                           start_time, end_time)
        private == [member_id |-> member_id, trainer_id |-> trainer_id,
                    room_id |-> room_id, start_time |-> start_time,
                    end_time |-> end_time] IN
    /\ last' = Call("book_private_session", res, FALSE)
    /\ IF res \in {OK, ErrNoAvailability, ErrOutsideHours}
       THEN /\ private_session' = Append(private_session, private)
            /\ billing_item' = IF res = OK
                                THEN _ensure_private_billing(billing_item,
                                        Len(private_session) + 1, private)
                                ELSE billing_item
       ELSE UNCHANGED <<private_session, billing_item>>
    /\ UNCHANGED <<trainer_availability, class_schedule, class_registration>>

book_private_session(member_id, trainer_id, room_id, start_time, end_time) ==
    LET res == book_private_session_result(member_id, trainer_id, room_id,
                                           start_time, end_time)
        private == [member_id |-> member_id, trainer_id |-> trainer_id,
                    room_id |-> room_id, start_time |-> start_time,
                    end_time |-> end_time] IN
    /\ last' = Call("book_private_session", res, FALSE)
    /\ IF res = OK
       THEN /\ private_session' = Append(private_session, private)
            /\ billing_item' = _ensure_private_billing(billing_item,
                                    Len(private_session) + 1, private)
       ELSE UNCHANGED <<private_session, billing_item>>
    /\ UNCHANGED <<trainer_availability, class_schedule, class_registration>>

\* ------------------------------------------ reschedule_private_session
\* new_room_id or private.room_id
or_room(new_room_id, private) ==
    IF new_room_id = 0 THEN private.room_id ELSE new_room_id

\* new_start or private.start_time
or_datetime(new_value, current) ==
    IF new_value = None THEN current ELSE new_value

reschedule_private_session_result(session_id, new_room_id, new_start, new_end) ==
    IF session_id \notin Ids(private_session) THEN ErrSessionNotFound
    ELSE LET private == private_session[session_id]
             room_id == or_room(new_room_id, private)
             start_time == or_datetime(new_start, private.start_time)
             end_time == or_datetime(new_end, private.end_time) IN
    IF start_time >= end_time THEN ErrStartBeforeEnd
    ELSE IF _ensure_trainer_availability(private.trainer_id, start_time, end_time) # OK
         THEN _ensure_trainer_availability(private.trainer_id, start_time, end_time)
    ELSE IF room_session_stmt(room_id, start_time, end_time) \ {session_id} # {}
         THEN ErrRoomSession
    ELSE IF room_class_stmt(room_id, start_time, end_time) # {} THEN ErrRoomClass
    ELSE IF trainer_session_stmt(private.trainer_id, start_time, end_time) \ {session_id} # {}
         THEN ErrTrainerSessionResched
    ELSE IF trainer_class_stmt(private.trainer_id, start_time, end_time) # {}
         THEN ErrTrainerClass
    ELSE IF member_session_stmt(private.member_id, start_time, end_time) \ {session_id} # {}
         THEN ErrMemberSession
    ELSE IF member_class_stmt(private.member_id, start_time, end_time) # {}
         THEN ErrMemberClass
    ELSE OK

\* the arguments name the session's own current room, start and end
own_values(session_id, new_room_id, new_start, new_end) ==
    /\ session_id \in Ids(private_session)
    /\ new_room_id \in {0, private_session[session_id].room_id}
    /\ new_start \in {None, private_session[session_id].start_time}
    /\ new_end \in {None, private_session[session_id].end_time}

\* what a call of reschedule_private_session ends in: OK, the message of the
\* ValueError it raises, or the IntegrityError of its commit when room_id
\* names no room and the store enforces foreign keys
reschedule_private_session_raised(session_id, new_room_id, new_start, new_end, fk_enforced) ==
    LET res == reschedule_private_session_result(session_id, new_room_id,
                                                 new_start, new_end) IN
    IF res # OK THEN res
    ELSE IF or_room(new_room_id, private_session[session_id]) \notin Rooms /\ fk_enforced
         THEN IntegrityError
    ELSE OK

\* The body of reschedule_private_session.  room_id is a foreign key that the
\* function does not resolve: when it names no room the commit raises
\* IntegrityError on a store that enforces foreign keys (PostgreSQL) and
\* writes the row on one that does not (SQLite without the pragma).
reschedule_body(op, session_id, new_room_id, new_start, new_end, fk_enforced) ==
    LET res == reschedule_private_session_raised(session_id, new_room_id,
                                                 new_start, new_end, fk_enforced)
        key == own_values(session_id, new_room_id, new_start, new_end) IN
    IF res # OK
    THEN /\ last' = Call(op, res, key)
         /\ UNCHANGED db
    ELSE LET private == private_session[session_id]
             room_id == or_room(new_room_id, private)
             updated == [private EXCEPT
                            !.room_id = room_id,
                            !.start_time = or_datetime(new_start, private.start_time),
                            !.end_time = or_datetime(new_end, private.end_time)] IN
              /\ last' = Call(op, OK, key)
              /\ private_session' = [private_session EXCEPT ![session_id] = updated]
              /\ billing_item' = _ensure_private_billing(billing_item, session_id, updated)
              /\ UNCHANGED <<trainer_availability, class_schedule, class_registration>>

reschedule_private_session(session_id, new_room_id, new_start, new_end, fk_enforced) ==
    reschedule_body("reschedule_private_session", session_id, new_room_id,
                    new_start, new_end, fk_enforced)

\* admin_reassign_session_room with a room check of its own, which does not
\* set the session itself aside
admin_reassign_session_room_raised_own_check(session_id, new_room_id, new_start, new_end) ==
    IF session_id \notin Ids(private_session) THEN ErrSessionNotFound
    ELSE IF new_room_id \notin Rooms THEN ErrRoomNotFound
    ELSE IF room_session_stmt(new_room_id,
                or_datetime(new_start, private_session[session_id].start_time),
                or_datetime(new_end, private_session[session_id].end_time)) # {}
         THEN ErrRoomSession
    ELSE reschedule_private_session_raised(session_id, new_room_id, new_start,
                                           new_end, TRUE)

\* what a call of admin_reassign_session_room ends in: the session and the
\* room are resolved, then reschedule_private_session decides
admin_reassign_session_room_raised(session_id, new_room_id, new_start, new_end) ==
    IF session_id \notin Ids(private_session) THEN ErrSessionNotFound
    ELSE IF new_room_id \notin Rooms THEN ErrRoomNotFound
    ELSE reschedule_private_session_raised(session_id, new_room_id, new_start,
                                           new_end, TRUE)

\* admin_service: resolve the session and the room, then delegate
admin_reassign_session_room(session_id, new_room_id, new_start, new_end) ==
    LET res == admin_reassign_session_room_raised(session_id, new_room_id,
                                                  new_start, new_end) IN
    IF res # OK
    THEN /\ last' = Call("admin_reassign_session_room", res, FALSE)
         /\ UNCHANGED db
    ELSE reschedule_body("admin_reassign_session_room", session_id, new_room_id,
                         new_start, new_end, TRUE)

\* ---------------------------------------------- create_or_update_class
\* class_id = 0 is class_id=None: create a class
\* create_or_update_class that looks for conflicting private sessions only
create_or_update_class_result_sessions_only(trainer_id, room_id, capacity, start_time, end_time, price, class_id) ==
    LET start == replace_minute0(start_time)
        end == start + ClassHours * TicksPerHour IN
    IF price <= 0 THEN ErrPrice
    ELSE IF trainer_id \notin Trainers THEN ErrTrainerNotFound
    ELSE IF room_id \notin Rooms THEN ErrRoomNotFound
    ELSE IF class_id # 0 /\ class_id \notin Ids(class_schedule) THEN ErrClassNotFound
    ELSE IF class_id # 0 /\ class_schedule[class_id].trainer_id # trainer_id THEN ErrNotOwner
    ELSE IF ~ _trainer_supports_window(trainer_id, start, end) THEN ErrClassAvailability
    ELSE IF room_session_stmt(room_id, start, end) # {} THEN ErrClassRoom
    ELSE IF trainer_session_stmt(trainer_id, start, end) # {} THEN ErrClassTrainer
    ELSE OK

\* create_or_update_class that does not compare the class's trainer with the
\* caller
create_or_update_class_result_no_owner_check(trainer_id, room_id, capacity, start_time, end_time, price, class_id) ==
    LET start == replace_minute0(start_time)
        end == start + ClassHours * TicksPerHour
        others == Ids(class_schedule) \ {class_id} IN
    IF price <= 0 THEN ErrPrice
    ELSE IF trainer_id \notin Trainers THEN ErrTrainerNotFound
    ELSE IF room_id \notin Rooms THEN ErrRoomNotFound
    ELSE IF class_id # 0 /\ class_id \notin Ids(class_schedule) THEN ErrClassNotFound
    ELSE IF ~ _trainer_supports_window(trainer_id, start, end) THEN ErrClassAvailability
    ELSE IF room_class_stmt(room_id, start, end) \cap others # {} THEN ErrClassRoom
    ELSE IF room_session_stmt(room_id, start, end) # {} THEN ErrClassRoom
    ELSE IF trainer_class_stmt(trainer_id, start, end) \cap others # {} THEN ErrClassTrainer
    ELSE IF trainer_session_stmt(trainer_id, start, end) # {} THEN ErrClassTrainer
    ELSE OK

create_or_update_class_result(trainer_id, room_id, capacity, start_time, end_time, price, class_id) ==
    \* start_time and end_time are reassigned before they are read
    LET start == replace_minute0(start_time)
        end == start + ClassHours * TicksPerHour
        others == Ids(class_schedule) \ {class_id} IN
    IF price <= 0 THEN ErrPrice
    ELSE IF trainer_id \notin Trainers THEN ErrTrainerNotFound
    ELSE IF room_id \notin Rooms THEN ErrRoomNotFound
    ELSE IF class_id # 0 /\ class_id \notin Ids(class_schedule) THEN ErrClassNotFound
    ELSE IF class_id # 0 /\ class_schedule[class_id].trainer_id # trainer_id THEN ErrNotOwner
    ELSE IF ~ _trainer_supports_window(trainer_id, start, end) THEN ErrClassAvailability
    ELSE IF room_class_stmt(room_id, start, end) \cap others # {} THEN ErrClassRoom
    ELSE IF room_session_stmt(room_id, start, end) # {} THEN ErrClassRoom
    ELSE IF trainer_class_stmt(trainer_id, start, end) \cap others # {} THEN ErrClassTrainer
    ELSE IF trainer_session_stmt(trainer_id, start, end) # {} THEN ErrClassTrainer
    ELSE OK

\* The body of create_or_update_class.  The caller's end_time is overwritten
\* before it is read.
class_body(op, trainer_id, room_id, capacity, start_time, end_time, price, class_id) ==
    LET res == create_or_update_class_result(trainer_id, room_id, capacity,
                                             start_time, end_time, price, class_id)
        start == replace_minute0(start_time)
        cls == [trainer_id |-> trainer_id, room_id |-> room_id,
                start_time |-> start,
                end_time |-> start + ClassHours * TicksPerHour,
                capacity |-> capacity, price |-> price] IN
    /\ last' = Call(op, res, FALSE)
    /\ IF res # OK THEN UNCHANGED class_schedule
       ELSE IF class_id = 0 THEN class_schedule' = Append(class_schedule, cls)
       ELSE class_schedule' = [class_schedule EXCEPT ![class_id] = cls]
    /\ UNCHANGED <<trainer_availability, private_session, class_registration,
                   billing_item>>

create_or_update_class(trainer_id, room_id, capacity, start_time, end_time, price, class_id) ==
    class_body("create_or_update_class", trainer_id, room_id, capacity,
               start_time, end_time, price, class_id)

\* admin_service: resolve the class and the room, then delegate with the
\* class's own trainer, capacity and price
admin_reschedule_class_raised(class_id, new_room_id, new_start, new_end) ==
    IF class_id \notin Ids(class_schedule) THEN ErrClassNotFound
    ELSE IF new_room_id \notin Rooms THEN ErrRoomNotFound
    ELSE create_or_update_class_result(class_schedule[class_id].trainer_id, new_room_id,
            class_schedule[class_id].capacity, new_start, new_end,
            class_schedule[class_id].price, class_id)

admin_reschedule_class(class_id, new_room_id, new_start, new_end) ==
    LET res == admin_reschedule_class_raised(class_id, new_room_id, new_start, new_end) IN
    IF res # OK
    THEN /\ last' = Call("admin_reschedule_class", res, FALSE)
         /\ UNCHANGED db
    ELSE class_body("admin_reschedule_class", class_schedule[class_id].trainer_id,
                    new_room_id, class_schedule[class_id].capacity, new_start,
                    new_end, class_schedule[class_id].price, class_id)

\* --------------------------------------------------- register_for_class
\* select(func.count(ClassRegistration.registration_id)).where(class_id == ...)
registration_count(class_id) ==
    BagCardinality([r \in {x \in BagToSet(class_registration) : x.class_id = class_id}
                        |-> class_registration[r]])

\* register_for_class that trusts the availability check made when the class
\* was created
register_for_class_result_no_recheck(member_id, class_id) ==
    IF member_id \notin Members THEN ErrMemberNotFound
    ELSE IF class_id \notin Ids(class_schedule) THEN ErrClassNotFound
    ELSE LET cls == class_schedule[class_id] IN
    IF CopiesIn([member_id |-> member_id, class_id |-> class_id],
                class_registration) > 0
         THEN ErrAlreadyRegistered
    ELSE IF registration_count(class_id) >= cls.capacity THEN ErrClassFull
    ELSE OK

\* register_for_class with the capacity check ahead of the duplicate check
register_for_class_result_capacity_first(member_id, class_id) ==
    IF member_id \notin Members THEN ErrMemberNotFound
    ELSE IF class_id \notin Ids(class_schedule) THEN ErrClassNotFound
    ELSE LET cls == class_schedule[class_id]
             available == _ensure_trainer_availability(cls.trainer_id,
                                cls.start_time, cls.end_time) IN
    IF available # OK THEN available
    ELSE IF registration_count(class_id) >= cls.capacity THEN ErrClassFull
    ELSE IF CopiesIn([member_id |-> member_id, class_id |-> class_id],
                     class_registration) > 0
         THEN ErrAlreadyRegistered
    ELSE OK

\* register_for_class whose capacity check lets one member too many in
register_for_class_result_off_by_one(member_id, class_id) ==
    IF member_id \notin Members THEN ErrMemberNotFound
    ELSE IF class_id \notin Ids(class_schedule) THEN ErrClassNotFound
    ELSE LET cls == class_schedule[class_id]
             available == _ensure_trainer_availability(cls.trainer_id,
                                cls.start_time, cls.end_time) IN
    IF available # OK THEN available
    ELSE IF CopiesIn([member_id |-> member_id, class_id |-> class_id],
                     class_registration) > 0
         THEN ErrAlreadyRegistered
    ELSE IF registration_count(class_id) > cls.capacity THEN ErrClassFull
    ELSE OK

register_for_class_result(member_id, class_id) ==
    IF member_id \notin Members THEN ErrMemberNotFound
    ELSE IF class_id \notin Ids(class_schedule) THEN ErrClassNotFound
    ELSE LET cls == class_schedule[class_id]
             available == _ensure_trainer_availability(cls.trainer_id,
                                cls.start_time, cls.end_time) IN
    IF available # OK THEN available
    ELSE IF CopiesIn([member_id |-> member_id, class_id |-> class_id],
                     class_registration) > 0
         THEN ErrAlreadyRegistered
    ELSE IF registration_count(class_id) >= cls.capacity THEN ErrClassFull
    ELSE OK

register_for_class(member_id, class_id) ==
    LET res == register_for_class_result(member_id, class_id) IN
    /\ last' = Call("register_for_class", res, FALSE)
    /\ IF res = OK
       THEN /\ class_registration' = class_registration
                    (+) SetToBag({[member_id |-> member_id, class_id |-> class_id]})
            /\ billing_item' = _ensure_class_billing(billing_item, member_id, class_id)
       ELSE UNCHANGED <<class_registration, billing_item>>
    /\ UNCHANGED <<trainer_availability, private_session, class_schedule>>

\* ------------------------------------------------- list_upcoming_classes
\* _class_within_trainer_availability that hides the classes of a trainer
\* without any window on the class's weekday
_class_within_trainer_availability_no_default(cls) ==
    LET availabilities == {i \in Ids(trainer_availability) :
            /\ trainer_availability[i].trainer_id = cls.trainer_id
            /\ trainer_availability[i].day_of_week = weekday(cls.start_time)} IN
    \E i \in availabilities :
        /\ trainer_availability[i].start_time <= time(cls.start_time)
        /\ trainer_availability[i].end_time >= time(cls.end_time)

_class_within_trainer_availability(cls) ==
    LET availabilities == {i \in Ids(trainer_availability) :
            /\ trainer_availability[i].trainer_id = cls.trainer_id
            /\ trainer_availability[i].day_of_week = weekday(cls.start_time)} IN
    IF availabilities = {} THEN TRUE
    ELSE \E i \in availabilities :
            /\ trainer_availability[i].start_time <= time(cls.start_time)
            /\ trainer_availability[i].end_time >= time(cls.end_time)

\* the lists (of class ids) list_upcoming_classes(now) may return: the rows
\* with start_time >= now that pass the availability filter, in the order of
\* ORDER BY start_time, which leaves the order of rows with equal start_time
\* to the store
list_upcoming_classes(now) ==
    LET classes == {c \in Ids(class_schedule) : class_schedule[c].start_time >= now}
        result == {c \in classes : _class_within_trainer_availability(class_schedule[c])} IN
    {s \in [1..Cardinality(result) -> result] :
        /\ \A c \in result : \E k \in DOMAIN s : s[k] = c
        /\ \A k \in DOMAIN s : \A l \in DOMAIN s :
                k < l => class_schedule[s[k]].start_time <= class_schedule[s[l]].start_time}

\* list_upcoming_classes reads and writes nothing
list_upcoming_classes_call(now) ==
    /\ list_upcoming_classes(now) # {}
    /\ last' = Call("list_upcoming_classes", OK, FALSE)
    /\ UNCHANGED db

\* ------------------------------------------------------ specifications
\* rows of private_session and class_schedule together
Bookings == Len(private_session) + Len(class_schedule)

\* rows of trainer_availability, private_session and class_schedule together
Rows == Len(trainer_availability) + Bookings

Bounded ==
    /\ Len(trainer_availability) <= MaxAvail
    /\ Bookings <= MaxBookings
    /\ Rows <= MaxRows

BookNext ==
    \E p \in PartyIds, w \in Windows :
        /\ book_private_session(p[1], p[2], p[3], w[1], w[2])
        /\ Bounded'
        /\ UNCHANGED txn

RescheduleNext ==
    \E i \in SessionIds, r \in {0} \cup Rooms, w \in NewWindows :
        /\ reschedule_private_session(i, r, w[1], w[2], TRUE)
        /\ UNCHANGED txn

AdminReassignNext ==
    \E i \in SessionIds, r \in RoomIds, w \in NewWindows :
        /\ admin_reassign_session_room(i, r, w[1], w[2])
        /\ UNCHANGED txn

ClassNext ==
    \E a \in ClassArgs, w \in ClassWindows, c \in ClassIds :
        /\ create_or_update_class(a[1], a[2], a[3], w[1], w[2], a[4], c)
        /\ Bounded'
        /\ UNCHANGED txn

AdminClassNext ==
    \E c \in ClassIds \ {0}, r \in RoomIds, w \in ClassWindows :
        /\ admin_reschedule_class(c, r, w[1], w[2])
        /\ UNCHANGED txn

RegisterNext ==
    \E m \in MemberIds, c \in ClassIds \ {0} :
        /\ register_for_class(m, c)
        /\ UNCHANGED txn

SetAvailabilityNext ==
    \E t \in TrainerIds, d \in DaysOfWeek, w \in TimeWindows :
        /\ set_trainer_availability(t, d, w[1], w[2])
        /\ Bounded'
        /\ UNCHANGED txn

UpdateAvailabilityNext ==
    \E a \in AvailabilityIds, w \in TimeWindows :
        /\ update_trainer_availability(a, w[1], w[2])
        /\ UNCHANGED txn

\* every operation, from the empty store
Next ==
    \/ BookNext
    \/ RescheduleNext
    \/ AdminReassignNext
    \/ ClassNext
    \/ AdminClassNext
    \/ RegisterNext
    \/ SetAvailabilityNext
    \/ UpdateAvailabilityNext

Spec == Init /\ [][Next]_vars

\* tests/helpers.py add_trainer_availability: every trainer is given one
\* wide window on every day of the week, closed for the last hours of the day
SeededAvailability ==
    [i \in 1..(NumTrainers * NumDays) |->
        [trainer_id |-> ((i - 1) % NumTrainers) + 1,
         day_of_week |-> (i - 1) \div NumTrainers,
         start_time |-> 0,
         end_time |-> (HoursPerDay - 2) * TicksPerHour]]

InitSeeded ==
    /\ trainer_availability = SeededAvailability
    /\ private_session = <<>>
    /\ class_schedule = <<>>
    /\ class_registration = EmptyBag
    /\ billing_item = EmptyBag
    /\ last = [op |-> "init", ok |-> TRUE, own |-> FALSE]
    /\ txn = [p \in Txns |-> Idle]

\* the booking operations, every trainer seeded with availability; the seeded
\* windows do not count as rows of the run
BoundedBookings == Bookings <= MaxBookings

SeededBookNext ==
    \E p \in PartyIds, w \in Windows :
        /\ book_private_session(p[1], p[2], p[3], w[1], w[2])
        /\ BoundedBookings'
        /\ UNCHANGED txn

SeededClassNext ==
    \E a \in ClassArgs, w \in ClassWindows, c \in ClassIds :
        /\ create_or_update_class(a[1], a[2], a[3], w[1], w[2], a[4], c)
        /\ BoundedBookings'
        /\ UNCHANGED txn

BookingNext ==
    \/ SeededBookNext
    \/ RescheduleNext
    \/ AdminReassignNext
    \/ SeededClassNext
    \/ AdminClassNext
    \/ RegisterNext

SpecBooking == InitSeeded /\ [][BookingNext]_vars

\* the availability operations alone, from the empty store
AvailabilityNext ==
    \/ SetAvailabilityNext
    \/ UpdateAvailabilityNext

SpecAvailability == Init /\ [][AvailabilityNext]_vars

\* booking and rescheduling with every room id a caller may pass, on a store
\* that enforces foreign keys and on one that does not
ReferencesRescheduleNext ==
    \E i \in SessionIds, r \in {0} \cup RoomIds, w \in NewWindows, fk_enforced \in BOOLEAN :
        /\ reschedule_private_session(i, r, w[1], w[2], fk_enforced)
        /\ UNCHANGED txn

ReferencesNext ==
    \/ SeededBookNext
    \/ ReferencesRescheduleNext

SpecReferences == InitSeeded /\ [][ReferencesNext]_vars

\* ---------------------------------------------------- concurrent requests
\* book_private_session run by concurrent requests, each in a unit of work of
\* its own.  The function takes no lock and sets no isolation level, and no
\* constraint of the schema forbids overlapping rows, so a request's queries
\* read what is committed when they run and its commit writes its row
\* whatever was committed in between.  The existence, availability and
\* conflict queries are one step (lines 247-328), session.add and
\* session.commit the other (330-343).  Request p books for member p with
\* trainer p.
book_private_session_queries(p, room_id, start_time, end_time) ==
    /\ txn[p].pc = "idle"
    /\ txn' = [txn EXCEPT ![p] =
                [pc |-> "checked", args |-> <<p, p, room_id, start_time, end_time>>,
                 res |-> book_private_session_result(p, p, room_id, start_time, end_time)]]
    /\ UNCHANGED <<db, last>>

book_private_session_commit(p) ==
    LET args == txn[p].args
        private == [member_id |-> args[1], trainer_id |-> args[2], room_id |-> args[3],
                    start_time |-> args[4], end_time |-> args[5]] IN
    /\ txn[p].pc = "checked"
    /\ txn' = [txn EXCEPT ![p] = Idle]
    /\ last' = Call("book_private_session", txn[p].res, FALSE)
    /\ IF txn[p].res = OK
       THEN /\ private_session' = Append(private_session, private)
            /\ billing_item' = _ensure_private_billing(billing_item,
                                    Len(private_session) + 1, private)
       ELSE UNCHANGED <<private_session, billing_item>>
    /\ UNCHANGED <<trainer_availability, class_schedule, class_registration>>

BookQueriesNext ==
    \E p \in Txns, r \in Rooms, w \in Windows :
        book_private_session_queries(p, r, w[1], w[2])

BookCommitNext ==
    \E p \in Txns : book_private_session_commit(p) /\ BoundedBookings'

ConcurrentBookingNext ==
    \/ BookQueriesNext
    \/ BookCommitNext

SpecConcurrentBooking == InitSeeded /\ [][ConcurrentBookingNext]_vars

\* register_for_class run by concurrent requests in the same way: the member,
\* class, availability, duplicate and count queries are one step (lines
\* 492-522), session.add, the billing item and session.commit the other
\* (524-533).  Request p registers member p.  Classes are created, never
\* updated, so the capacity of a class does not change.
register_for_class_queries(p, class_id) ==
    /\ txn[p].pc = "idle"
    /\ txn' = [txn EXCEPT ![p] =
                [pc |-> "checked", args |-> <<p, class_id>>,
                 res |-> register_for_class_result(p, class_id)]]
    /\ UNCHANGED <<db, last>>

register_for_class_commit(p) ==
    LET args == txn[p].args IN
    /\ txn[p].pc = "checked"
    /\ txn' = [txn EXCEPT ![p] = Idle]
    /\ last' = Call("register_for_class", txn[p].res, FALSE)
    /\ IF txn[p].res = OK
       THEN /\ class_registration' = class_registration
                    (+) SetToBag({[member_id |-> args[1], class_id |-> args[2]]})
            /\ billing_item' = _ensure_class_billing(billing_item, args[1], args[2])
       ELSE UNCHANGED <<class_registration, billing_item>>
    /\ UNCHANGED <<trainer_availability, private_session, class_schedule>>

RegisterQueriesNext ==
    \E p \in Txns, c \in ClassIds \ {0} : register_for_class_queries(p, c)

RegisterCommitNext ==
    \E p \in Txns : register_for_class_commit(p)

NewClassNext ==
    \E a \in ClassArgs, w \in ClassWindows :
        /\ create_or_update_class(a[1], a[2], a[3], w[1], w[2], a[4], 0)
        /\ Len(class_schedule') <= MaxClasses
        /\ UNCHANGED txn

ConcurrentRegistrationNext ==
    \/ NewClassNext
    \/ RegisterQueriesNext
    \/ RegisterCommitNext

SpecConcurrentRegistration == InitSeeded /\ [][ConcurrentRegistrationNext]_vars

\* ----------------------------------------------------------- class listing
\* app/demo_data.py inserts class rows directly, one hour long from the top
\* of an hour, whatever windows their trainers have: the store starts with
\* up to MaxBookings such classes and no availability window
SeededClasses ==
    {[trainer_id |-> t, room_id |-> 1, start_time |-> h, end_time |-> h + ClassHours * TicksPerHour,
      capacity |-> MaxCapacity, price |-> 1] :
        t \in Trainers, h \in {s \in DateTimes : ~ off_the_hour(s)}}

InitListing ==
    /\ trainer_availability = <<>>
    /\ private_session = <<>>
    /\ class_schedule \in {<<>>} \cup {<<a>> : a \in SeededClasses}
                            \cup {<<a, b>> : a \in SeededClasses, b \in SeededClasses}
    /\ class_registration = EmptyBag
    /\ billing_item = EmptyBag
    /\ last = [op |-> "init", ok |-> TRUE, own |-> FALSE]
    /\ txn = [p \in Txns |-> Idle]

\* the reference timestamps of a listing
NowTimes == 0..(MaxStart + 1)

ListUpcomingNext ==
    \E now \in NowTimes :
        /\ list_upcoming_classes_call(now)
        /\ UNCHANGED txn

ListingSetAvailabilityNext ==
    \E t \in Trainers, d \in DaysOfWeek, w \in TimeWindows :
        /\ set_trainer_availability(t, d, w[1], w[2])
        /\ Len(trainer_availability') <= MaxAvail
        /\ UNCHANGED txn

ListingNext ==
    \/ ListUpcomingNext
    \/ ListingSetAvailabilityNext
    \/ UpdateAvailabilityNext

SpecListing == InitListing /\ [][ListingNext]_vars

\* ------------------------------------------------------------ properties
\* the half-open windows [start, end) of two rows share an instant
windows_overlap(a, b) == a.start_time < b.end_time /\ b.start_time < a.end_time

\* the persisted commitments: private sessions and classes
Commitments ==
    {<<"session", i>> : i \in Ids(private_session)}
        \cup {<<"class", c>> : c \in Ids(class_schedule)}

Row(k) == IF k[1] = "session" THEN private_session[k[2]] ELSE class_schedule[k[2]]

\* the member is registered for the class
registered(member_id, class_id) ==
    CopiesIn([member_id |-> member_id, class_id |-> class_id], class_registration) > 0

\* the commitments a member holds: own sessions and registered classes
MemberCommitments(member_id) ==
    {<<"session", i>> : i \in {j \in Ids(private_session) :
                                  private_session[j].member_id = member_id}}
        \cup {<<"class", c>> : c \in {d \in Ids(class_schedule) :
                                          registered(member_id, d)}}

\* C1: no two distinct persisted commitments (private sessions and/or
\* classes) that share a room have overlapping windows [start, end).
C1_RoomNeverDoubleBooked ==
    \A a, b \in Commitments :
        (a # b /\ Row(a).room_id = Row(b).room_id) => ~ windows_overlap(Row(a), Row(b))

\* a session was just moved so that it ends in a room exactly when a class
\* starts there
C1_Witness ==
    /\ last.op = "reschedule_private_session" /\ last.ok /\ ~ last.own
    /\ \E i \in Ids(private_session), c \in Ids(class_schedule) :
            /\ private_session[i].room_id = class_schedule[c].room_id
            /\ private_session[i].end_time = class_schedule[c].start_time

\* C2: no two distinct persisted commitments (private sessions and/or
\* classes) that share a trainer have overlapping windows [start, end).
C2_TrainerNeverDoubleBooked ==
    \A a, b \in Commitments :
        (a # b /\ Row(a).trainer_id = Row(b).trainer_id)
            => ~ windows_overlap(Row(a), Row(b))

\* a class was just created or moved so that it starts exactly when a session
\* of its trainer ends
C2_Witness ==
    /\ last.op \in {"create_or_update_class", "admin_reschedule_class"} /\ last.ok
    /\ \E i \in Ids(private_session), c \in Ids(class_schedule) :
            /\ private_session[i].trainer_id = class_schedule[c].trainer_id
            /\ private_session[i].end_time = class_schedule[c].start_time

\* C3: no two of a member's private sessions and registered classes have
\* overlapping windows [start, end).
C3_MemberNeverDoubleBooked ==
    \A m \in Members : \A a, b \in MemberCommitments(m) :
        a # b => ~ windows_overlap(Row(a), Row(b))

\* C4: the number of registrations of every class is at most the capacity of
\* the class.
C4_RegistrationsWithinCapacity ==
    \A c \in Ids(class_schedule) :
        BagCardinality([r \in {x \in BagToSet(class_registration) : x.class_id = c}
                            |-> class_registration[r]]) <= class_schedule[c].capacity

\* C5: no two distinct availability windows of the same trainer and the same
\* day_of_week share any interior time.
C5_AvailabilityWindowsDisjoint ==
    \A i, j \in Ids(trainer_availability) :
        (/\ i # j
         /\ trainer_availability[i].trainer_id = trainer_availability[j].trainer_id
         /\ trainer_availability[i].day_of_week = trainer_availability[j].day_of_week)
            => ~ windows_overlap(trainer_availability[i], trainer_availability[j])

\* a window was just updated and now touches another window of the same
\* trainer and day
C5_Witness ==
    /\ last.op = "update_trainer_availability" /\ last.ok
    /\ \E i, j \in Ids(trainer_availability) :
            /\ i # j
            /\ trainer_availability[i].trainer_id = trainer_availability[j].trainer_id
            /\ trainer_availability[i].day_of_week = trainer_availability[j].day_of_week
            /\ trainer_availability[i].end_time = trainer_availability[j].start_time

\* the time-of-day range of [start_time, end_time) fits inside some
\* availability window of the trainer on the weekday of start_time
fits_availability(trainer_id, start_time, end_time) ==
    \E a \in Ids(trainer_availability) :
        /\ trainer_availability[a].trainer_id = trainer_id
        /\ trainer_availability[a].day_of_week = weekday(start_time)
        /\ trainer_availability[a].start_time <= time(start_time)
        /\ time(end_time) <= trainer_availability[a].end_time

session_fits(i) ==
    fits_availability(private_session[i].trainer_id, private_session[i].start_time,
                      private_session[i].end_time)

\* C6, as claimed: every persisted private session fits inside some
\* availability window of its trainer on the session's weekday.
C6_SessionsFitAvailability == \A i \in Ids(private_session) : session_fits(i)

\* C6, amended: a private session fits inside an availability window of its
\* trainer when it is booked or rescheduled, and a session that fits keeps
\* fitting through every call but a successful update_trainer_availability.
C6_SessionsFitUntilAvailabilityUpdated ==
    [][\A i \in Ids(private_session') :
          (\/ i \notin Ids(private_session)
           \/ private_session'[i] # private_session[i]
           \/ (session_fits(i)
                 /\ ~ (last'.op = "update_trainer_availability" /\ last'.ok)))
            => session_fits(i)']_vars

\* a session was just moved to another window that its trainer's availability
\* contains
C6_Witness ==
    /\ last.op = "reschedule_private_session" /\ last.ok /\ ~ last.own
    /\ private_session # <<>>
    /\ \A i \in Ids(private_session) : session_fits(i)

\* C7: a call that ends in an error leaves the private sessions, classes,
\* registrations, availability windows and billing items exactly as they
\* were before the call.
C7_ErrorLeavesStateUnchanged == [][~ last'.ok => UNCHANGED db]_vars

\* a booking was just rejected in a store that holds a session, a window and
\* a billing item
C7_Witness ==
    /\ last.op = "book_private_session" /\ ~ last.ok
    /\ private_session # <<>>
    /\ trainer_availability # <<>>
    /\ billing_item # EmptyBag

\* C8: for every persisted private session, reschedule_private_session with
\* the session's own room, start and end, or with no new values, succeeds.
C8_RescheduleToOwnValuesSucceeds ==
    \A i \in Ids(private_session) :
        /\ reschedule_private_session_result(i, private_session[i].room_id,
                private_session[i].start_time, private_session[i].end_time) = OK
        /\ reschedule_private_session_result(i, 0, None, None) = OK

\* the member holds a private session whose window overlaps the class's
holds_overlapping_session(member_id, class_id) ==
    \E i \in Ids(private_session) :
        /\ private_session[i].member_id = member_id
        /\ windows_overlap(private_session[i], class_schedule[class_id])

\* C9: register_for_class is rejected with a member-level conflict, and adds
\* no registration and no billing item, whenever the member holds a private
\* session whose window overlaps the class's window.
C9_RegisterRejectedOnMemberConflict ==
    [][\A m \in Members, c \in Ids(class_schedule) :
          (holds_overlapping_session(m, c) /\ register_for_class(m, c))
            => /\ register_for_class_result(m, c) \in {ErrMemberSession, ErrMemberClass}
               /\ UNCHANGED <<class_registration, billing_item>>]_vars

\* C10, as claimed: register_for_class for a pair that already has a
\* registration is rejected with the duplicate-registration error.
C10_DuplicateRejectedAsDuplicate ==
    \A m \in Members, c \in Ids(class_schedule) :
        registered(m, c) => register_for_class_result(m, c) = ErrAlreadyRegistered

\* C10, amended: register_for_class for a pair that already has a
\* registration is rejected, with the duplicate-registration error (also
\* when the class is full) while the class's trainer still has availability
\* for the class's window and with the availability error otherwise; the call
\* changes no state, and no pair ever has two registrations.
C10_DuplicateRejected ==
    /\ [](\A m \in Members, c \in Ids(class_schedule) :
            /\ CopiesIn([member_id |-> m, class_id |-> c], class_registration) <= 1
            /\ registered(m, c) =>
                 register_for_class_result(m, c) =
                    IF fits_availability(class_schedule[c].trainer_id,
                           class_schedule[c].start_time, class_schedule[c].end_time)
                    THEN ErrAlreadyRegistered
                    ELSE IF \E a \in Ids(trainer_availability) :
                              /\ trainer_availability[a].trainer_id =
                                     class_schedule[c].trainer_id
                              /\ trainer_availability[a].day_of_week =
                                     weekday(class_schedule[c].start_time)
                         THEN ErrOutsideHours
                         ELSE ErrNoAvailability)
    /\ [][\A m \in Members, c \in Ids(class_schedule) :
            (registered(m, c) /\ register_for_class(m, c)) => UNCHANGED db]_vars

\* a registration was just rejected for a member who is registered for a
\* class that is full
C10_Witness ==
    /\ last.op = "register_for_class" /\ ~ last.ok
    /\ \E m \in Members, c \in Ids(class_schedule) :
            /\ registered(m, c)
            /\ registration_count(c) >= class_schedule[c].capacity
            /\ register_for_class_result(m, c) = ErrAlreadyRegistered

\* the registrations of a class, counted row by row
registrations_of(class_id) ==
    BagCardinality([r \in {x \in BagToSet(class_registration) : x.class_id = class_id}
                        |-> class_registration[r]])

\* C11: when the class's trainer supports the class's window and the member
\* is not yet registered, register_for_class succeeds and adds exactly one
\* registration if the class holds fewer registrations than its capacity,
\* and is rejected with the class-full error, adding nothing, otherwise.
C11_RegisterUpToCapacity ==
    [][last'.op = "register_for_class" =>
       \A m \in Members, c \in Ids(class_schedule) :
          (/\ fits_availability(class_schedule[c].trainer_id,
                    class_schedule[c].start_time, class_schedule[c].end_time)
           /\ ~ registered(m, c)
           /\ register_for_class(m, c))
            => IF registrations_of(c) < class_schedule[c].capacity
               THEN /\ last'.ok
                    /\ class_registration' = class_registration
                          (+) SetToBag({[member_id |-> m, class_id |-> c]})
                    /\ registrations_of(c)' = registrations_of(c) + 1
               ELSE /\ register_for_class_result(m, c) = ErrClassFull
                    /\ UNCHANGED db]_vars

\* a class of capacity 1 holds one member, and the registration of another
\* member was just rejected as class full
C11_Witness ==
    /\ last.op = "register_for_class" /\ ~ last.ok
    /\ \E m \in Members, c \in Ids(class_schedule) :
            /\ ~ registered(m, c)
            /\ class_schedule[c].capacity >= 1
            /\ registrations_of(c) = class_schedule[c].capacity
            /\ register_for_class_result(m, c) = ErrClassFull

\* the errors of the availability check
AvailabilityErrors == {ErrNoAvailability, ErrOutsideHours}

Window(start, end) == [start_time |-> start, end_time |-> end]

\* non-empty windows to compare with each other
ProbeWindows ==
    {w \in (0..(MaxStart + TicksPerHour)) \X (0..(MaxStart + TicksPerHour)) : w[1] < w[2]}

\* no commitment other than `self` shares the room or the trainer, or is held
\* by the member (member_id = 0: no member), over a window that overlaps
\* [start, end) in the strict half-open sense
conflict_free(room_id, trainer_id, member_id, start, end, self) ==
    /\ \A k \in Commitments \ {self} :
            (Row(k).room_id = room_id \/ Row(k).trainer_id = trainer_id)
                => ~ windows_overlap(Row(k), Window(start, end))
    /\ member_id # 0 =>
            \A k \in MemberCommitments(member_id) \ {self} :
                ~ windows_overlap(Row(k), Window(start, end))

\* C13: the conflict predicate of book_private_session,
\* reschedule_private_session and create_or_update_class is the strict
\* half-open overlap aStart < bEnd /\ bStart < aEnd, symmetric in its two
\* windows: a request that passes validation and availability is accepted
\* exactly when no other commitment of its room, trainer or member overlaps
\* it in that sense, so back-to-back bookings are both accepted.
C13_StrictHalfOpenOverlap ==
    /\ \A a, b \in ProbeWindows :
            /\ overlap(Window(a[1], a[2]), b[1], b[2]) <=> (a[1] < b[2] /\ b[1] < a[2])
            /\ overlap(Window(a[1], a[2]), b[1], b[2])
                    <=> overlap(Window(b[1], b[2]), a[1], a[2])
            /\ _time_overlaps(a[1], a[2], b[1], b[2]) <=> (a[1] < b[2] /\ b[1] < a[2])
    /\ \A m \in Members, t \in Trainers, r \in Rooms, w \in Windows :
            (w[1] < w[2] /\ fits_availability(t, w[1], w[2])) =>
                (book_private_session_result(m, t, r, w[1], w[2]) = OK
                    <=> conflict_free(r, t, m, w[1], w[2], <<"none", 0>>))
    /\ \A i \in Ids(private_session), r \in Rooms, w \in Windows :
            (w[1] < w[2] /\ fits_availability(private_session[i].trainer_id, w[1], w[2])) =>
                (reschedule_private_session_result(i, r, w[1], w[2]) = OK
                    <=> conflict_free(r, private_session[i].trainer_id,
                            private_session[i].member_id, w[1], w[2], <<"session", i>>))
    /\ \A t \in Trainers, r \in Rooms, w \in ClassWindows :
       \A c \in {0} \cup {d \in Ids(class_schedule) : class_schedule[d].trainer_id = t} :
            LET start == replace_minute0(w[1])
                end == start + ClassHours * TicksPerHour IN
            fits_availability(t, start, end) =>
                (create_or_update_class_result(t, r, 1, w[1], w[2], 1, c) = OK
                    <=> conflict_free(r, t, 0, start, end, <<"class", c>>))

\* a session was just booked back to back with another session of the same
\* trainer in the same room
C13_Witness ==
    /\ last.op = "book_private_session" /\ last.ok
    /\ \E i, j \in Ids(private_session) :
            /\ i # j
            /\ private_session[i].room_id = private_session[j].room_id
            /\ private_session[i].trainer_id = private_session[j].trainer_id
            /\ private_session[i].end_time = private_session[j].start_time

\* absolute timestamps over the first ProbeDays days, and the windows
\* start < end between them
ProbeDateTimes == 0..(ProbeDays * TicksPerDay - 1)

ProbeSpans == {w \in ProbeDateTimes \X ProbeDateTimes : w[1] < w[2]}

\* midnight of the day of a timestamp
midnight(dt) == dt - time(dt)

\* C14: after a successful set_trainer_availability(trainer, day, s, e) that
\* is the trainer's only window on that day, the availability checks of
\* booking (_ensure_trainer_availability) and of class creation
\* (_trainer_supports_window) accept every window start < end of absolute
\* timestamps whose start falls on that weekday and that lies inside [s, e]
\* of that day, and reject every such window that begins before s or ends
\* after e.
C14_SetThenSupportsRoundTrip ==
    (/\ last.op = "set_trainer_availability" /\ last.ok
     /\ trainer_availability # <<>>) =>
        LET a == trainer_availability[Len(trainer_availability)] IN
        (\A i \in Ids(trainer_availability) :
            (/\ trainer_availability[i].trainer_id = a.trainer_id
             /\ trainer_availability[i].day_of_week = a.day_of_week)
                => i = Len(trainer_availability))
        => \A w \in ProbeSpans :
              weekday(w[1]) = a.day_of_week =>
                LET inside == /\ midnight(w[1]) + a.start_time <= w[1]
                              /\ w[2] <= midnight(w[1]) + a.end_time IN
                /\ _trainer_supports_window(a.trainer_id, w[1], w[2]) <=> inside
                /\ (_ensure_trainer_availability(a.trainer_id, w[1], w[2]) = OK) <=> inside

\* availability requests that pass validation: start < end, on the hour
ValidTimeWindows ==
    {w \in TimeWindows : w[1] < w[2] /\ ~ off_the_hour(w[1]) /\ ~ off_the_hour(w[2])}

\* the windows of a trainer and day, `self` left out, that share interior
\* time with [start, end)
interior_shared(trainer_id, day_of_week, start, end, self) ==
    {i \in Ids(trainer_availability) \ {self} :
        /\ trainer_availability[i].trainer_id = trainer_id
        /\ trainer_availability[i].day_of_week = day_of_week
        /\ windows_overlap(trainer_availability[i], Window(start, end))}

\* C15, as claimed: a window for the same trainer and day whose start equals
\* an existing window's end, or whose end equals an existing window's start,
\* is rejected with the overlap error by set_trainer_availability and by
\* update_trainer_availability.
C15_TouchingWindowsRejected ==
    \A i \in Ids(trainer_availability), w \in ValidTimeWindows :
        (w[1] = trainer_availability[i].end_time
            \/ w[2] = trainer_availability[i].start_time)
        => /\ set_trainer_availability_result(trainer_availability[i].trainer_id,
                    trainer_availability[i].day_of_week, w[1], w[2]) = ErrAvailOverlap
           /\ \A j \in Ids(trainer_availability) \ {i} :
                 (/\ trainer_availability[j].trainer_id = trainer_availability[i].trainer_id
                  /\ trainer_availability[j].day_of_week
                        = trainer_availability[i].day_of_week)
                    => update_trainer_availability_result(j, w[1], w[2])
                            = ErrAvailUpdateOverlap

\* C15, amended: set_trainer_availability and update_trainer_availability
\* reject with the overlap error exactly the valid windows that share
\* interior time with a window (update: another window) of the same trainer
\* and day; a window that only touches an existing one is not overlapping.
C15_OverlapErrorIffInteriorShared ==
    /\ \A t \in Trainers, d \in DaysOfWeek, w \in ValidTimeWindows :
            set_trainer_availability_result(t, d, w[1], w[2]) = ErrAvailOverlap
                <=> interior_shared(t, d, w[1], w[2], 0) # {}
    /\ \A j \in Ids(trainer_availability), w \in ValidTimeWindows :
            update_trainer_availability_result(j, w[1], w[2]) = ErrAvailUpdateOverlap
                <=> interior_shared(trainer_availability[j].trainer_id,
                        trainer_availability[j].day_of_week, w[1], w[2], j) # {}

\* a window was just set that begins exactly where another window of the
\* same trainer and day ends
C15_Witness ==
    /\ last.op = "set_trainer_availability" /\ last.ok
    /\ \E i \in Ids(trainer_availability) :
            /\ i # Len(trainer_availability)
            /\ trainer_availability[i].trainer_id
                    = trainer_availability[Len(trainer_availability)].trainer_id
            /\ trainer_availability[i].day_of_week
                    = trainer_availability[Len(trainer_availability)].day_of_week
            /\ trainer_availability[i].end_time
                    = trainer_availability[Len(trainer_availability)].start_time

\* C16: set_trainer_availability accepts a window for the same trainer and
\* day that begins exactly where an existing window ends (it shares interior
\* time with none) and adds it, and rejects with the 'overlaps' error,
\* adding nothing, a window that shares interior time with an existing one.
C16_TouchingAcceptedOverlapRejected ==
    [][last'.op = "set_trainer_availability" =>
         \A t \in Trainers, d \in DaysOfWeek, w \in ValidTimeWindows :
            set_trainer_availability(t, d, w[1], w[2]) =>
                IF interior_shared(t, d, w[1], w[2], 0) # {}
                THEN /\ set_trainer_availability_result(t, d, w[1], w[2]) = ErrAvailOverlap
                     /\ ~ last'.ok
                     /\ UNCHANGED db
                ELSE /\ last'.ok
                     /\ trainer_availability' = Append(trainer_availability,
                            [trainer_id |-> t, day_of_week |-> d,
                             start_time |-> w[1], end_time |-> w[2]])]_vars

\* two windows of a trainer and day touch, and a window that shares interior
\* time with one of them was just rejected
C16_Witness ==
    /\ last.op = "set_trainer_availability" /\ ~ last.ok
    /\ \E i, j \in Ids(trainer_availability) :
            /\ i < j
            /\ trainer_availability[i].trainer_id = trainer_availability[j].trainer_id
            /\ trainer_availability[i].day_of_week = trainer_availability[j].day_of_week
            /\ trainer_availability[i].end_time = trainer_availability[j].start_time
            /\ \E w \in ValidTimeWindows :
                    /\ w[1] > trainer_availability[i].start_time
                    /\ w[1] < trainer_availability[j].end_time
                    /\ set_trainer_availability_result(trainer_availability[i].trainer_id,
                            trainer_availability[i].day_of_week, w[1], w[2])
                                = ErrAvailOverlap

\* the six conflict checks on [start, end), `self` being the session that is
\* rescheduled (0: none): 1 room vs private sessions, 2 room vs classes,
\* 3 trainer vs private sessions, 4 trainer vs classes, 5 member vs private
\* sessions, 6 member vs registered classes
conflict_check(n, room_id, trainer_id, member_id, start, end, self) ==
    LET sessions == {i \in Ids(private_session) \ {self} :
                        windows_overlap(private_session[i], Window(start, end))}
        classes == {c \in Ids(class_schedule) :
                        windows_overlap(class_schedule[c], Window(start, end))} IN
    CASE n = 1 -> \E i \in sessions : private_session[i].room_id = room_id
      [] n = 2 -> \E c \in classes : class_schedule[c].room_id = room_id
      [] n = 3 -> \E i \in sessions : private_session[i].trainer_id = trainer_id
      [] n = 4 -> \E c \in classes : class_schedule[c].trainer_id = trainer_id
      [] n = 5 -> \E i \in sessions : private_session[i].member_id = member_id
      [] n = 6 -> \E c \in classes : registered(member_id, c)

\* the error of the first matching check in the order 1..6, OK when none
\* matches
first_conflict(errors, room_id, trainer_id, member_id, start, end, self) ==
    LET matching == {n \in 1..6 : conflict_check(n, room_id, trainer_id, member_id,
                                                 start, end, self)} IN
    IF matching = {} THEN OK
    ELSE errors[CHOOSE n \in matching : \A k \in matching : n <= k]

\* the errors of the six checks, in order, of book_private_session and of
\* reschedule_private_session
BookConflictErrors ==
    <<ErrRoomSession, ErrRoomClass, ErrTrainerSession, ErrTrainerClass,
      ErrMemberSession, ErrMemberClass>>

RescheduleConflictErrors ==
    <<ErrRoomSession, ErrRoomClass, ErrTrainerSessionResched, ErrTrainerClass,
      ErrMemberSession, ErrMemberClass>>

\* C17: in book_private_session and reschedule_private_session the conflict
\* checks run in the order room vs sessions, room vs classes, trainer vs
\* sessions, trainer vs classes, member vs sessions, member vs registered
\* classes; the error returned is that of the first matching check, and the
\* six checks have pairwise distinct errors.
C17_FirstConflictInFixedOrder ==
    /\ Cardinality({BookConflictErrors[n] : n \in 1..6}) = 6
    /\ Cardinality({RescheduleConflictErrors[n] : n \in 1..6}) = 6
    /\ \A m \in Members, t \in Trainers, r \in Rooms, w \in Windows :
            (w[1] < w[2] /\ fits_availability(t, w[1], w[2])) =>
                book_private_session_result(m, t, r, w[1], w[2])
                    = first_conflict(BookConflictErrors, r, t, m, w[1], w[2], 0)
    /\ \A i \in Ids(private_session), r \in Rooms, w \in Windows :
            (w[1] < w[2] /\ fits_availability(private_session[i].trainer_id, w[1], w[2])) =>
                reschedule_private_session_result(i, r, w[1], w[2])
                    = first_conflict(RescheduleConflictErrors, r,
                            private_session[i].trainer_id, private_session[i].member_id,
                            w[1], w[2], i)

\* a booking was just rejected in a store where some request meets a class in
\* its room and a session of its trainer, and is refused for the room
C17_Witness ==
    /\ last.op = "book_private_session" /\ ~ last.ok
    /\ \E m \in Members, t \in Trainers, r \in Rooms, w \in Windows :
            /\ w[1] < w[2]
            /\ ~ conflict_check(1, r, t, m, w[1], w[2], 0)
            /\ conflict_check(2, r, t, m, w[1], w[2], 0)
            /\ conflict_check(3, r, t, m, w[1], w[2], 0)
            /\ book_private_session_result(m, t, r, w[1], w[2]) = ErrRoomClass

\* the number of billing items among `items`
bill_count(items) ==
    BagCardinality([b \in items |-> billing_item[b]])

\* the billing items of a private session, and the non-cancelled ones of a
\* (member, class) pair
session_bills(private_session_id) ==
    {b \in BagToSet(billing_item) : b.private_session_id = private_session_id}

class_bills(member_id, class_id) ==
    {b \in BagToSet(billing_item) :
        b.member_id = member_id /\ b.class_id = class_id /\ b.status # "cancelled"}

\* C18: billing is one record per booking: every private session has exactly
\* one billing item, with status pending, whether it was rescheduled or not;
\* every registered (member, class) pair has exactly one non-cancelled item,
\* with status pending, and no other pair has one; a successful booking or
\* registration adds one item and a successful reschedule adds none.
C18_OneBillPerBooking ==
    /\ [](/\ \A i \in Ids(private_session) :
                /\ bill_count(session_bills(i)) = 1
                /\ \A b \in session_bills(i) : b.status = "pending"
          /\ \A m \in Members, c \in Ids(class_schedule) :
                /\ bill_count(class_bills(m, c)) = (IF registered(m, c) THEN 1 ELSE 0)
                /\ \A b \in class_bills(m, c) : b.status = "pending")
    /\ [][/\ (last'.ok /\ last'.op \in {"book_private_session", "register_for_class"})
                => BagCardinality(billing_item') = BagCardinality(billing_item) + 1
          /\ (last'.ok /\ last'.op = "reschedule_private_session")
                => BagCardinality(billing_item') = BagCardinality(billing_item)]_vars

\* a session was just moved to another start: its one bill carries the new
\* start, next to the bill of a class registration
C18_Witness ==
    /\ last.op = "reschedule_private_session" /\ last.ok /\ ~ last.own
    /\ \E i \in Ids(private_session) :
            \E b \in session_bills(i) : b.description = private_session[i].start_time
                                            /\ b.description # 0
    /\ \E m \in Members, c \in Ids(class_schedule) : registered(m, c)

\* the top of the hour of a timestamp, and the one-hour class window from it
hour_of(dt) == (dt \div TicksPerHour) * TicksPerHour

class_window(start) == Window(hour_of(start), hour_of(start) + ClassHours * TicksPerHour)

classes_overlapping(trainer_id, room_id, window) ==
    {c \in Ids(class_schedule) :
        /\ class_schedule[c].trainer_id = trainer_id
        /\ class_schedule[c].room_id = room_id
        /\ windows_overlap(class_schedule[c], window)}

\* the two "... is not available for this time slot" errors
NotAvailableErrors == {ErrClassRoom, ErrClassTrainer}

Prices == {0, 1}

\* C21: create_or_update_class called with the id of an existing class and a
\* trainer_id other than the class's trainer, the request being otherwise
\* well-formed (positive price, existing trainer and room), is rejected with
\* the ownership error whatever its room and window; a request that also
\* fails one of the three earlier checks gets that check's error; in every
\* case the class, its trainer included, is left unchanged.
C21_CrossTrainerEditRejected ==
    /\ [](\A c \in Ids(class_schedule), t \in TrainerIds, r \in RoomIds, p \in Prices,
             w \in ClassWindows :
            t # class_schedule[c].trainer_id =>
                create_or_update_class_result(t, r, 1, w[1], w[2], p, c)
                    = IF p <= 0 THEN ErrPrice
                      ELSE IF t \notin Trainers THEN ErrTrainerNotFound
                      ELSE IF r \notin Rooms THEN ErrRoomNotFound
                      ELSE ErrNotOwner)
    /\ [][(last'.op = "create_or_update_class" /\ ~ last'.ok)
            => class_schedule' = class_schedule]_vars

\* a class request was just rejected in a store whose class belongs to one
\* trainer while the other trainer, with availability for the class's
\* window, is refused the edit for ownership
C21_Witness ==
    /\ last.op = "create_or_update_class" /\ ~ last.ok
    /\ \E c \in Ids(class_schedule), t \in Trainers :
            /\ t # class_schedule[c].trainer_id
            /\ create_or_update_class_result(t, class_schedule[c].room_id, 1,
                    class_schedule[c].start_time, class_schedule[c].end_time, 1, c)
                        = ErrNotOwner

\* C22: register_for_class by an existing member for an existing class fails
\* with an availability error exactly when no window the class's trainer
\* currently has on the class's weekday contains the class's time-of-day
\* range, also for a class that was within availability when it was created,
\* and a failed registration creates no registration and no billing item.
C22_RegistrationRechecksAvailability ==
    /\ [](\A m \in Members, c \in Ids(class_schedule) :
            register_for_class_result(m, c) \in AvailabilityErrors
                <=> ~ fits_availability(class_schedule[c].trainer_id,
                        class_schedule[c].start_time, class_schedule[c].end_time))
    /\ [][(last'.op = "register_for_class" /\ ~ last'.ok)
            => UNCHANGED <<class_registration, billing_item>>]_vars

\* a registration was just rejected for a class with a free place whose
\* trainer's window has been moved away from it since the class was created
C22_Witness ==
    /\ last.op = "register_for_class" /\ ~ last.ok
    /\ \E m \in Members, c \in Ids(class_schedule) :
            /\ ~ fits_availability(class_schedule[c].trainer_id,
                    class_schedule[c].start_time, class_schedule[c].end_time)
            /\ class_schedule[c].capacity > registrations_of(c)
            /\ register_for_class_result(m, c) \in AvailabilityErrors

\* the "... not found" errors of a member, trainer or room that does not exist
NotFoundErrors == {ErrMemberNotFound, ErrTrainerNotFound, ErrRoomNotFound}

\* C23: booking and rescheduling a private session resolve every referenced
\* member, trainer and room and abort with a not-found error, writing
\* nothing, when one of them does not exist: a booking with start < end that
\* names a missing member, trainer or room ends in a not-found error; a
\* reschedule that would succeed in the session's own room ends in "Room not
\* found" when new_room_id names no room; no persisted session refers to a
\* missing member, trainer or room.
C23_MissingReferenceAborts ==
    /\ \A p \in PartyIds, w \in Windows :
            (w[1] < w[2] /\ (p[1] \notin Members \/ p[2] \notin Trainers \/ p[3] \notin Rooms))
                => book_private_session_result(p[1], p[2], p[3], w[1], w[2]) \in NotFoundErrors
    /\ \A i \in Ids(private_session), r \in RoomIds \ Rooms, w \in NewWindows,
          fk_enforced \in BOOLEAN :
            reschedule_private_session_result(i, 0, w[1], w[2]) = OK
                => reschedule_private_session_raised(i, r, w[1], w[2], fk_enforced)
                        = ErrRoomNotFound
    /\ \A i \in Ids(private_session) :
            /\ private_session[i].member_id \in Members
            /\ private_session[i].trainer_id \in Trainers
            /\ private_session[i].room_id \in Rooms

\* C24: the admin operations add no conflict logic of their own.  For every
\* argument set naming an existing target room, admin_reassign_session_room
\* ends as reschedule_private_session with those arguments does (success or
\* the same error), and admin_reschedule_class as create_or_update_class
\* called with the class's own trainer, capacity and price; with a target
\* room that does not exist both abort with "Room not found".  A rejected
\* admin call changes nothing, and a successful one changes the store as a
\* successful reschedule_private_session, resp. create_or_update_class, does.
C24_AdminDelegates ==
    /\ [](/\ \A i \in SessionIds, r \in RoomIds, w \in NewWindows :
                admin_reassign_session_room_raised(i, r, w[1], w[2])
                    = IF r \in Rooms
                      THEN reschedule_private_session_raised(i, r, w[1], w[2], TRUE)
                      ELSE IF i \in Ids(private_session) THEN ErrRoomNotFound
                      ELSE ErrSessionNotFound
          /\ \A c \in Ids(class_schedule), r \in RoomIds, w \in ClassWindows :
                admin_reschedule_class_raised(c, r, w[1], w[2])
                    = IF r \in Rooms
                      THEN create_or_update_class_result(class_schedule[c].trainer_id, r,
                                class_schedule[c].capacity, w[1], w[2],
                                class_schedule[c].price, c)
                      ELSE ErrRoomNotFound)
    /\ [][/\ (last'.op \in {"admin_reassign_session_room", "admin_reschedule_class"}
                /\ ~ last'.ok) => UNCHANGED db
          /\ (last'.op = "admin_reassign_session_room" /\ last'.ok) =>
                \E i \in Ids(private_session), r \in Rooms, w \in NewWindows :
                    /\ reschedule_private_session_raised(i, r, w[1], w[2], TRUE) = OK
                    /\ reschedule_body("admin_reassign_session_room", i, r,
                                       w[1], w[2], TRUE)
          /\ (last'.op = "admin_reschedule_class" /\ last'.ok) =>
                \E c \in Ids(class_schedule), r \in Rooms, w \in ClassWindows :
                    class_body("admin_reschedule_class", class_schedule[c].trainer_id, r,
                               class_schedule[c].capacity, w[1], w[2],
                               class_schedule[c].price, c)]_vars

\* the admin has just moved a session to another room and start, in a store
\* where moving it onto the window of another booking of that room is refused
\* as the reschedule refuses it
C24_Witness ==
    /\ last.op = "admin_reassign_session_room" /\ last.ok /\ ~ last.own
    /\ \E i \in Ids(private_session), r \in Rooms, w \in Windows :
            /\ admin_reassign_session_room_raised(i, r, w[1], w[2])
                    \in {ErrRoomSession, ErrRoomClass}
            /\ reschedule_private_session_raised(i, r, w[1], w[2], TRUE)
                    \in {ErrRoomSession, ErrRoomClass}

\* C25: two concurrent book_private_session requests, of different members
\* with different trainers, for the same room with overlapping windows never
\* both commit: no two persisted sessions of different members and trainers
\* share a room over overlapping windows.
C25_ConcurrentBookingsNeverBothCommit ==
    \A i, j \in Ids(private_session) :
        (/\ i # j
         /\ private_session[i].member_id # private_session[j].member_id
         /\ private_session[i].trainer_id # private_session[j].trainer_id
         /\ private_session[i].room_id = private_session[j].room_id)
            => ~ windows_overlap(private_session[i], private_session[j])

\* C26: two concurrent register_for_class requests by different members for a
\* class with exactly one free place never both commit, so the registration
\* count of a class never exceeds its capacity.
C26_ConcurrentRegistrationsWithinCapacity ==
    \A c \in Ids(class_schedule) :
        BagCardinality([r \in {x \in BagToSet(class_registration) : x.class_id = c}
                            |-> class_registration[r]]) <= class_schedule[c].capacity

\* the trainer of the class has no availability window on the class's weekday
no_window_that_day(class_id) ==
    \A a \in Ids(trainer_availability) :
        ~ (/\ trainer_availability[a].trainer_id = class_schedule[class_id].trainer_id
           /\ trainer_availability[a].day_of_week
                = weekday(class_schedule[class_id].start_time))

\* the classes a listing at `now` is to show
listed(now) ==
    {c \in Ids(class_schedule) :
        /\ class_schedule[c].start_time >= now
        /\ \/ no_window_that_day(c)
           \/ fits_availability(class_schedule[c].trainer_id,
                    class_schedule[c].start_time, class_schedule[c].end_time)}

\* C27: list_upcoming_classes(now) returns exactly the classes with
\* start_time >= now whose trainer either has no availability window at all
\* on the class's weekday or has a window containing the class's time-of-day
\* range, each once, ordered by start_time; a class whose trainer has no
\* window that weekday is listed although register_for_class rejects it for
\* availability.
C27_UpcomingClassesListed ==
    \A now \in NowTimes :
        /\ list_upcoming_classes(now) # {}
        /\ \A s \in list_upcoming_classes(now) :
                /\ {s[k] : k \in DOMAIN s} = listed(now)
                /\ Len(s) = Cardinality(listed(now))
                /\ \A k \in 1..(Len(s) - 1) :
                        class_schedule[s[k]].start_time <= class_schedule[s[k + 1]].start_time
        /\ \A c \in Ids(class_schedule) :
                (no_window_that_day(c) /\ class_schedule[c].start_time >= now) =>
                    /\ \A s \in list_upcoming_classes(now) : \E k \in DOMAIN s : s[k] = c
                    /\ \A m \in Members : register_for_class_result(m, c) = ErrNoAvailability

\* a listing was just made of a store with two classes at different times,
\* the later one stored first: one of a trainer without any window, which is
\* listed, and one of a trainer whose window does not contain it, which is not
C27_Witness ==
    /\ last.op = "list_upcoming_classes"
    /\ Len(class_schedule) = 2
    /\ class_schedule[1].start_time > class_schedule[2].start_time
    /\ \E c, d \in Ids(class_schedule) :
            /\ no_window_that_day(c)
            /\ ~ no_window_that_day(d)
            /\ listed(0) = {c}

\* C28: every availability window persisted by set_trainer_availability has
\* day_of_week in 0..6, whatever day_of_week the caller passed.
C28_DayOfWeekInRange ==
    \A a \in Ids(trainer_availability) :
        trainer_availability[a].day_of_week \in 0..(DaysPerWeek - 1)

\* C29: create_or_update_class and admin_reschedule_class never move an
\* existing class that has registrations to a window overlapping a private
\* session, or another registered class, of one of its registered members.
C29_ClassMoveKeepsMembersFree ==
    [][(last'.op \in {"create_or_update_class", "admin_reschedule_class"} /\ last'.ok) =>
        \A c \in Ids(class_schedule) :
            class_schedule'[c].start_time # class_schedule[c].start_time =>
                \A m \in Members :
                    registered(m, c) =>
                        /\ \A i \in Ids(private_session) :
                                private_session[i].member_id = m =>
                                    ~ windows_overlap(private_session[i], class_schedule'[c])
                        /\ \A d \in Ids(class_schedule) \ {c} :
                                registered(m, d) =>
                                    ~ windows_overlap(class_schedule[d], class_schedule'[c])]_vars

\* one occurrence of an availability window of the trainer holds the whole
\* span: the window is of the weekday of start_time and, laid on the calendar
\* day of start_time, it begins no later than start_time and ends no earlier
\* than end_time
inside_one_occurrence(trainer_id, start_time, end_time) ==
    \E a \in Ids(trainer_availability) :
        /\ trainer_availability[a].trainer_id = trainer_id
        /\ trainer_availability[a].day_of_week = weekday(start_time)
        /\ midnight(start_time) + trainer_availability[a].start_time <= start_time
        /\ end_time <= midnight(start_time) + trainer_availability[a].end_time

\* C30: every request with start < end that book_private_session or
\* reschedule_private_session accepts lies wholly inside one occurrence of an
\* availability window of its trainer, so it ends on the calendar day on
\* which it starts; a request whose end_time falls on a later day is rejected.
C30_AcceptedSessionInsideOneWindow ==
    /\ \A m \in Members, t \in Trainers, r \in Rooms, w \in ProbeSpans :
            book_private_session_result(m, t, r, w[1], w[2]) = OK
                => /\ inside_one_occurrence(t, w[1], w[2])
                   /\ midnight(w[2] - 1) = midnight(w[1])
    /\ \A i \in Ids(private_session), w \in ProbeSpans :
            reschedule_private_session_result(i, 0, w[1], w[2]) = OK
                => /\ inside_one_occurrence(private_session[i].trainer_id, w[1], w[2])
                   /\ midnight(w[2] - 1) = midnight(w[1])
====
